---- MODULE Spec2Model ----
(***************************************************************************)
(* Pixshop: the client-side editing session (App.tsx) with its linear      *)
(* undo/redo history, its AI requests and its saves; the response handling *)
(* of the AI service (geminiService.ts); and the product update handler of *)
(* the backend (server.js, PATCH /api/products/:sku) over the product      *)
(* table and the object-storage bucket.                                    *)
(***************************************************************************)
EXTENDS Integers, Sequences, FiniteSets, TLC

(***************************************************************************)
(* Bounds                                                                  *)
(***************************************************************************)
\* File objects (uploads, AI results, crops) created in one session
MaxFiles == 3
\* images held in the session list
MaxImages == 2
\* files accepted by one handleFilesUpload call
MaxUpload == 2
\* description texts generated or typed in one session
MaxTexts == 2
\* PATCH requests received by the server in one run
MaxRequests == 2
\* PATCH requests handled at the same time
MaxInFlight == 2
\* GET /api/products requests received by the server in one run
MaxListings == 2
\* runs of equal characters in a SKU string
MaxRuns == 2
\* calls of getConsistentKeyword with one SKU
MaxCalls == 2

NULL == "null"
\* the null selectedImageId; image ids and File objects are numbered from 1
NoId == 0

VARIABLES
    \* ---- client (App.tsx) ----
    images,            \* useState<ImageState[]>
    selectedImageId,   \* useState<string | null>
    isLoading,         \* useState<boolean>
    error,             \* useState<string | null>
    editHotspot,       \* useState<{x,y} | null>, kept as set / not set
    completedCrop,     \* useState<PixelCrop>, kept as set / not set
    aiRequests,        \* AI calls awaited by a handler, with the closure they captured
    nextFile,          \* number of File objects created so far
    opLog,             \* the last two history operations and the images before each
    isSaving,          \* useState<boolean>
    isSaveModalOpen,   \* useState(false)
    itemToSave,        \* useState<ItemToSave | null>, kept as its type
    saveRequests,      \* saves awaited by handleSaveToDb, with what the call captured
    nextText,          \* number of description texts generated or typed so far
    savedText,         \* image id -> text of its last Description save that succeeded
    \* ---- backend (server.js) ----
    rows,              \* the product table: sku -> column -> value
    bucket,            \* object storage: key -> stored bytes
    requests,          \* PATCH requests being handled, by slot
    checkedOut,        \* connections taken from the pool and not yet released
    clock,             \* database time, read by NOW()
    issued,            \* number of PATCH requests received so far
    saved,             \* <<sku, dataType, type>> of the requests answered with 200
    listings,          \* GET /api/products requests being handled, by slot
    listed,            \* number of GET /api/products requests received so far
    \* ---- AI service (geminiService.ts) ----
    apiCall,           \* position of one image-producing call: idle, received, handled
    apiResponse,       \* the GenerateContentResponse the model answered with
    apiContext,        \* "edit", "filter" or "adjustment"
    apiResult,         \* what handleApiResponse returned or threw
    \* ---- getConsistentKeyword (server.js) ----
    kwSku,             \* the SKU string the keyword is derived from
    kwCalls,           \* what the calls made with kwSku returned, in order
    \* ---- updateProductInDB (databaseService.ts) ----
    dbCall,            \* one call: its position, its arguments, the answer of fetch
    dbResult           \* how the promise of the call settled

saveVars == <<isSaving, isSaveModalOpen, itemToSave, saveRequests>>

textVars == <<nextText, savedText>>

clientVars == <<images, selectedImageId, isLoading, error, editHotspot,
                completedCrop, aiRequests, nextFile, opLog, saveVars, textVars>>

serverVars == <<rows, bucket, requests, checkedOut, clock, issued, saved>>

facadeVars == <<apiCall, apiResponse, apiContext, apiResult>>

listingVars == <<listings, listed>>

keywordVars == <<kwSku, kwCalls>>

dbCallVars == <<dbCall, dbResult>>

\* the listing handler, the keyword function and the save call
sideVars == <<listingVars, keywordVars, dbCallVars>>

vars == <<clientVars, serverVars, facadeVars, sideVars>>

(***************************************************************************)
(* Client-side editing state (App.tsx)                                     *)
(***************************************************************************)

\* images.find(img => img.id === id): position of the image, 0 if absent
RECURSIVE FindFrom(_, _, _)
FindFrom(imgs, id, k) ==
    IF k > Len(imgs) THEN 0
    ELSE IF imgs[k].id = id THEN k ELSE FindFrom(imgs, id, k + 1)

findIndex(imgs, id) == FindFrom(imgs, id, 1)

\* const selectedImageState = images.find(...) ?? null
hasSelectedImageState == findIndex(images, selectedImageId) # 0
selectedImageState == images[findIndex(images, selectedImageId)]

\* history is a JS array: entry k of the array is history[k + 1] here
currentImage == selectedImageState.history[selectedImageState.historyIndex + 1]
originalImage == selectedImageState.history[1]

canRedoOffByOne ==
    IF hasSelectedImageState
    THEN selectedImageState.historyIndex < Len(selectedImageState.history)
    ELSE FALSE

canUndo == IF hasSelectedImageState THEN selectedImageState.historyIndex > 0 ELSE FALSE
canRedo == IF hasSelectedImageState
           THEN selectedImageState.historyIndex < Len(selectedImageState.history) - 1
           ELSE FALSE

addUpdaterNoTruncate(image, newImageFile) ==
    LET newHistory == Append(image.history, newImageFile)
    IN  [image EXCEPT !.history = newHistory, !.historyIndex = Len(newHistory) - 1]

addUpdaterDroppingFirst(image, newImageFile) ==
    LET newHistory == Append(SubSeq(image.history, 2, image.historyIndex + 1), newImageFile)
    IN  [image EXCEPT !.history = newHistory, !.historyIndex = Len(newHistory) - 1]

\* the updater of addImageToHistory: slice(0, historyIndex + 1), push, index = length - 1
addUpdater(image, newImageFile) ==
    LET newHistory == Append(SubSeq(image.history, 1, image.historyIndex + 1), newImageFile)
    IN  [image EXCEPT !.history = newHistory, !.historyIndex = Len(newHistory) - 1]

undoUpdaterToStart(img) == [img EXCEPT !.historyIndex = 0]
resetUpdaterTruncating(img) ==
    [img EXCEPT !.historyIndex = 0, !.history = <<img.history[1]>>]

undoUpdater(img) == [img EXCEPT !.historyIndex = img.historyIndex - 1]
redoUpdater(img) == [img EXCEPT !.historyIndex = img.historyIndex + 1]
resetUpdater(img) == [img EXCEPT !.historyIndex = 0]

\* setImages(prev => prev.map(img => img.id === id ? updater(img) : img)),
\* a no-op when id is null; updated[k] is updater(imgs[k])
updateSelectedImage(imgs, id, updated) ==
    IF id = NoId THEN imgs
    ELSE [k \in 1..Len(imgs) |-> IF imgs[k].id = id THEN updated[k] ELSE imgs[k]]

\* addImageToHistory under the selectedImageId its closure captured
addImageToHistory(imgs, id, newImageFile) ==
    updateSelectedImage(imgs, id, [k \in 1..Len(imgs) |-> addUpdater(imgs[k], newImageFile)])

\* record of one history operation: its name, the selected id it ran under,
\* and the images before it; the log keeps the last two
Logged(op, id, arg) ==
    LET e == [op |-> op, id |-> id, arg |-> arg, images |-> images]
    IN  IF Len(opLog) = 0 THEN <<e>> ELSE <<opLog[Len(opLog)], e>>

\* the editor controls are rendered only without an error panel and with a
\* selected image (renderEditorContent)
editorVisible == error = NULL /\ hasSelectedImageState

newImageState(f) ==
    [id |-> f, originalFile |-> f, history |-> <<f>>, historyIndex |-> 0,
     description |-> NULL, isDescriptionSaved |-> FALSE]

\* handleFilesUpload: n files are resized and appended, each a fresh File
handleFilesUpload(n) ==
    /\ n \in 1..MaxUpload
    /\ nextFile + n <= MaxFiles
    /\ Len(images) + n <= MaxImages
    /\ images' = images \o [k \in 1..n |-> newImageState(nextFile + k)]
    /\ selectedImageId' = IF selectedImageId = NoId THEN nextFile + 1 ELSE selectedImageId
    /\ nextFile' = nextFile + n
    /\ error' = NULL
    /\ editHotspot' = FALSE
    /\ completedCrop' = FALSE
    /\ opLog' = Logged("upload", selectedImageId, n)
    /\ UNCHANGED <<isLoading, aiRequests>>
    /\ UNCHANGED <<saveVars, textVars, serverVars, facadeVars, sideVars>>

handleSelectImage(id) ==
    /\ findIndex(images, id) # 0
    /\ selectedImageId' = id
    /\ error' = NULL
    /\ editHotspot' = FALSE
    /\ completedCrop' = FALSE
    /\ opLog' = Logged("select", selectedImageId, id)
    /\ UNCHANGED <<images, isLoading, aiRequests, nextFile>>
    /\ UNCHANGED <<saveVars, textVars, serverVars, facadeVars, sideVars>>

\* handleImageClick sets the hotspot (retouch tab)
handleImageClick ==
    /\ editorVisible
    /\ ~editHotspot
    /\ editHotspot' = TRUE
    /\ UNCHANGED <<images, selectedImageId, isLoading, error, completedCrop,
                   aiRequests, nextFile, opLog>>
    /\ UNCHANGED <<saveVars, textVars, serverVars, facadeVars, sideVars>>

\* ReactCrop onComplete
setCompletedCrop ==
    /\ editorVisible
    /\ ~completedCrop
    /\ completedCrop' = TRUE
    /\ UNCHANGED <<images, selectedImageId, isLoading, error, editHotspot,
                   aiRequests, nextFile, opLog>>
    /\ UNCHANGED <<saveVars, textVars, serverVars, facadeVars, sideVars>>

\* handleApplyCrop: a synchronous edit of the selected image
handleApplyCrop ==
    /\ editorVisible
    /\ ~isLoading
    /\ completedCrop
    /\ nextFile < MaxFiles
    /\ images' = addImageToHistory(images, selectedImageId, nextFile + 1)
    /\ nextFile' = nextFile + 1
    /\ completedCrop' = FALSE
    /\ opLog' = Logged("applyEdit", selectedImageId, nextFile + 1)
    /\ UNCHANGED <<selectedImageId, isLoading, error, editHotspot, aiRequests>>
    /\ UNCHANGED <<saveVars, textVars, serverVars, facadeVars, sideVars>>

handleUndo ==
    /\ editorVisible
    /\ canUndo
    /\ images' = updateSelectedImage(images, selectedImageId,
                      [k \in 1..Len(images) |-> undoUpdater(images[k])])
    /\ editHotspot' = FALSE
    /\ opLog' = Logged("undo", selectedImageId, 0)
    /\ UNCHANGED <<selectedImageId, isLoading, error, completedCrop, aiRequests, nextFile>>
    /\ UNCHANGED <<saveVars, textVars, serverVars, facadeVars, sideVars>>

handleRedo ==
    /\ editorVisible
    /\ canRedo
    /\ images' = updateSelectedImage(images, selectedImageId,
                      [k \in 1..Len(images) |-> redoUpdater(images[k])])
    /\ editHotspot' = FALSE
    /\ opLog' = Logged("redo", selectedImageId, 0)
    /\ UNCHANGED <<selectedImageId, isLoading, error, completedCrop, aiRequests, nextFile>>
    /\ UNCHANGED <<saveVars, textVars, serverVars, facadeVars, sideVars>>

\* the Reset button is disabled unless canUndo
handleReset ==
    /\ editorVisible
    /\ canUndo
    /\ Len(selectedImageState.history) > 0
    /\ images' = updateSelectedImage(images, selectedImageId,
                      [k \in 1..Len(images) |-> resetUpdater(images[k])])
    /\ error' = NULL
    /\ editHotspot' = FALSE
    /\ opLog' = Logged("reset", selectedImageId, 0)
    /\ UNCHANGED <<selectedImageId, isLoading, completedCrop, aiRequests, nextFile>>
    /\ UNCHANGED <<saveVars, textVars, serverVars, facadeVars, sideVars>>

\* what the awaited AI call of handleGenerate / handleApplyFilter /
\* handleApplyAdjustment can end in: a data URL, or one of the thrown errors
AiFailures == {"Blocked", "GenerationStopped", "EmptyResult", "NetworkFailure"}

\* the Filter, Adjustment and Crop panels receive isLoading and disable
\* their apply buttons with it
panelEnabled == ~isLoading

\* handleGenerate up to its await: the Generate button needs a hotspot and
\* no request in progress
handleGenerate ==
    /\ editorVisible
    /\ ~isLoading
    /\ editHotspot
    /\ isLoading' = TRUE
    /\ error' = NULL
    /\ aiRequests' = Append(aiRequests, [kind |-> "edit", id |-> selectedImageId,
                                         sent |-> currentImage])
    /\ UNCHANGED <<images, selectedImageId, editHotspot, completedCrop, nextFile, opLog>>
    /\ UNCHANGED <<saveVars, textVars, serverVars, facadeVars, sideVars>>

\* handleApplyFilter / handleApplyAdjustment up to their await
handleApplyFilter(kind) ==
    /\ editorVisible
    /\ panelEnabled
    /\ isLoading' = TRUE
    /\ error' = NULL
    /\ aiRequests' = Append(aiRequests, [kind |-> kind, id |-> selectedImageId,
                                         sent |-> currentImage])
    /\ UNCHANGED <<images, selectedImageId, editHotspot, completedCrop, nextFile, opLog>>
    /\ UNCHANGED <<saveVars, textVars, serverVars, facadeVars, sideVars>>

RemoveAt(s, k) == SubSeq(s, 1, k - 1) \o SubSeq(s, k + 1, Len(s))

\* the awaited call resolved: addImageToHistory(newImageFile) under the
\* captured selectedImageId, then finally setIsLoading(false)
AiResolved(k) ==
    /\ k \in 1..Len(aiRequests)
    /\ aiRequests[k].kind # "describe"
    /\ nextFile < MaxFiles
    /\ images' = addImageToHistory(images, aiRequests[k].id, nextFile + 1)
    /\ nextFile' = nextFile + 1
    /\ completedCrop' = FALSE
    /\ editHotspot' = IF aiRequests[k].kind = "edit" THEN FALSE ELSE editHotspot
    /\ isLoading' = FALSE
    /\ aiRequests' = RemoveAt(aiRequests, k)
    /\ opLog' = Logged("applyEdit", aiRequests[k].id, nextFile + 1)
    /\ UNCHANGED <<selectedImageId, error>>
    /\ UNCHANGED <<saveVars, textVars, serverVars, facadeVars, sideVars>>

AiRejectedAppending(k, failure) ==
    /\ k \in 1..Len(aiRequests)
    /\ aiRequests[k].kind # "describe"
    /\ error' = failure
    /\ isLoading' = FALSE
    /\ images' = addImageToHistory(images, aiRequests[k].id, aiRequests[k].sent)
    /\ aiRequests' = RemoveAt(aiRequests, k)
    /\ opLog' = Logged("failedEdit", aiRequests[k].id, 0)
    /\ UNCHANGED <<selectedImageId, editHotspot, completedCrop, nextFile>>
    /\ UNCHANGED <<saveVars, textVars, serverVars, facadeVars, sideVars>>

\* the awaited call threw: catch sets the error, finally setIsLoading(false)
AiRejected(k, failure) ==
    /\ k \in 1..Len(aiRequests)
    /\ aiRequests[k].kind # "describe"
    /\ error' = failure
    /\ isLoading' = FALSE
    /\ aiRequests' = RemoveAt(aiRequests, k)
    /\ opLog' = Logged("failedEdit", aiRequests[k].id, 0)
    /\ UNCHANGED <<images, selectedImageId, editHotspot, completedCrop, nextFile>>
    /\ UNCHANGED <<saveVars, textVars, serverVars, facadeVars, sideVars>>

\* the texts of the session: text n is the n-th one generated or typed
TextNames == <<"d1", "d2", "d3", "d4">>

\* the describe panel lies under the backdrop of an open SaveModal
describePanelEnabled == editorVisible /\ ~isLoading /\ ~isSaveModalOpen

clearedUpdater(img) == [img EXCEPT !.description = NULL, !.isDescriptionSaved = FALSE]
describedUpdater(img, text) == [img EXCEPT !.description = text]
editedUpdater(img, text) == [img EXCEPT !.description = text, !.isDescriptionSaved = FALSE]

\* handleGenerateDescription up to its await: the description of the
\* selected image is cleared before the call
handleGenerateDescription ==
    /\ describePanelEnabled
    /\ isLoading' = TRUE
    /\ error' = NULL
    /\ images' = updateSelectedImage(images, selectedImageId,
                      [k \in 1..Len(images) |-> clearedUpdater(images[k])])
    /\ aiRequests' = Append(aiRequests, [kind |-> "describe", id |-> selectedImageId,
                                         sent |-> currentImage])
    /\ UNCHANGED <<selectedImageId, editHotspot, completedCrop, nextFile, opLog>>
    /\ UNCHANGED <<saveVars, textVars, serverVars, facadeVars, sideVars>>

\* generateDescription resolved with a text: it becomes the description of
\* the image selected when the call was made, finally setIsLoading(false)
DescriptionResolved(k) ==
    /\ k \in 1..Len(aiRequests)
    /\ aiRequests[k].kind = "describe"
    /\ nextText < MaxTexts
    /\ images' = updateSelectedImage(images, aiRequests[k].id,
                      [j \in 1..Len(images) |->
                          describedUpdater(images[j], TextNames[nextText + 1])])
    /\ nextText' = nextText + 1
    /\ isLoading' = FALSE
    /\ aiRequests' = RemoveAt(aiRequests, k)
    /\ UNCHANGED <<selectedImageId, error, editHotspot, completedCrop, nextFile, opLog>>
    /\ UNCHANGED <<saveVars, savedText, serverVars, facadeVars, sideVars>>

\* generateDescription threw: catch sets the error, finally setIsLoading(false)
DescriptionRejected(k) ==
    /\ k \in 1..Len(aiRequests)
    /\ aiRequests[k].kind = "describe"
    /\ error' = "Failed to generate description."
    /\ isLoading' = FALSE
    /\ aiRequests' = RemoveAt(aiRequests, k)
    /\ UNCHANGED <<images, selectedImageId, editHotspot, completedCrop, nextFile, opLog>>
    /\ UNCHANGED <<saveVars, textVars, serverVars, facadeVars, sideVars>>

\* onDescriptionChange: the user types in the textarea of the generated
\* text, which is disabled while loading
onDescriptionChange ==
    /\ describePanelEnabled
    /\ nextText < MaxTexts
    /\ images' = updateSelectedImage(images, selectedImageId,
                      [k \in 1..Len(images) |->
                          editedUpdater(images[k], TextNames[nextText + 1])])
    /\ nextText' = nextText + 1
    /\ UNCHANGED <<selectedImageId, isLoading, error, editHotspot, completedCrop,
                   aiRequests, nextFile, opLog>>
    /\ UNCHANGED <<saveVars, savedText, serverVars, facadeVars, sideVars>>

\* everything of the editing session that a save leaves alone
editVars == <<images, selectedImageId, isLoading, editHotspot, completedCrop,
              aiRequests, nextFile, opLog>>

\* handleInitiateSave('Image'), the Save Image button of the editor, and
\* handleInitiateSave('Description'), the save buttons DescribePanel shows
\* for a description while nothing is loading
handleInitiateSave(itemType) ==
    /\ editorVisible
    /\ itemType = "Description" => (selectedImageState.description # NULL /\ ~isLoading)
    /\ itemToSave' = itemType
    /\ isSaveModalOpen' = TRUE
    /\ UNCHANGED <<editVars, error, isSaving, saveRequests, textVars>>
    /\ UNCHANGED <<serverVars, facadeVars, sideVars>>

\* onClose of SaveModal: the Cancel button is disabled while saving, the
\* backdrop is not
closeSaveModal ==
    /\ isSaveModalOpen
    /\ isSaveModalOpen' = FALSE
    /\ UNCHANGED <<editVars, error, isSaving, itemToSave, saveRequests, textVars>>
    /\ UNCHANGED <<serverVars, facadeVars, sideVars>>

\* dataToSave = dataType === 'Image' ? currentImage : selectedImageState.description
\* is neither null nor undefined; the current File of a selected image never is
hasDataToSave ==
    IF itemToSave = "Image" THEN TRUE ELSE selectedImageState.description # NULL

\* handleSaveToDb up to its await: the Update Product button of the modal
\* is disabled while isSaving
handleSaveToDb ==
    /\ isSaveModalOpen
    /\ ~isSaving
    /\ IF itemToSave = NULL \/ ~hasSelectedImageState
       THEN /\ error' = "No item selected to save."
            /\ UNCHANGED <<isSaving, saveRequests>>
       ELSE IF ~hasDataToSave
       THEN /\ error' = "No description available to save."
            /\ UNCHANGED <<isSaving, saveRequests>>
       ELSE /\ isSaving' = TRUE
            /\ error' = NULL
            /\ saveRequests' = Append(saveRequests,
                                  [dataType |-> itemToSave, id |-> selectedImageId,
                                   text |-> IF itemToSave = "Description"
                                            THEN selectedImageState.description
                                            ELSE NULL])
    /\ UNCHANGED <<editVars, isSaveModalOpen, itemToSave, textVars>>
    /\ UNCHANGED <<serverVars, facadeVars, sideVars>>

savedUpdater(img) == [img EXCEPT !.isDescriptionSaved = TRUE]

\* updateProductInDB answered { success: true }: a saved description is
\* marked, the modal closes, finally setIsSaving(false)
SaveSucceeded(k) ==
    /\ k \in 1..Len(saveRequests)
    /\ images' = IF saveRequests[k].dataType = "Description"
                 THEN updateSelectedImage(images, saveRequests[k].id,
                          [j \in 1..Len(images) |-> savedUpdater(images[j])])
                 ELSE images
    /\ savedText' = IF saveRequests[k].dataType = "Description"
                    THEN [savedText EXCEPT ![saveRequests[k].id] = saveRequests[k].text]
                    ELSE savedText
    /\ isSaveModalOpen' = FALSE
    /\ itemToSave' = NULL
    /\ isSaving' = FALSE
    /\ saveRequests' = RemoveAt(saveRequests, k)
    /\ UNCHANGED <<selectedImageId, isLoading, error, editHotspot, completedCrop,
                   aiRequests, nextFile, opLog, nextText>>
    /\ UNCHANGED <<serverVars, facadeVars, sideVars>>

\* updateProductInDB answered { success: false }, or the WebP conversion
\* threw: the error is shown, finally setIsSaving(false)
SaveFailedStaysBusy(k) ==
    /\ k \in 1..Len(saveRequests)
    /\ error' = "Failed to save to database."
    /\ saveRequests' = RemoveAt(saveRequests, k)
    /\ UNCHANGED <<editVars, isSaving, isSaveModalOpen, itemToSave, textVars>>
    /\ UNCHANGED <<serverVars, facadeVars, sideVars>>

SaveFailed(k) ==
    /\ k \in 1..Len(saveRequests)
    /\ error' = "Failed to save to database."
    /\ isSaving' = FALSE
    /\ saveRequests' = RemoveAt(saveRequests, k)
    /\ UNCHANGED <<editVars, isSaveModalOpen, itemToSave, textVars>>
    /\ UNCHANGED <<serverVars, facadeVars, sideVars>>

handleUploadNew ==
    /\ editorVisible
    /\ images' = <<>>
    /\ selectedImageId' = NoId
    /\ error' = NULL
    /\ editHotspot' = FALSE
    /\ opLog' = Logged("uploadNew", selectedImageId, 0)
    /\ UNCHANGED <<isLoading, completedCrop, aiRequests, nextFile>>
    /\ UNCHANGED <<saveVars, textVars, serverVars, facadeVars, sideVars>>

\* the Try Again button of the error panel
dismissError ==
    /\ error # NULL
    /\ error' = NULL
    /\ UNCHANGED <<images, selectedImageId, isLoading, editHotspot, completedCrop,
                   aiRequests, nextFile, opLog>>
    /\ UNCHANGED <<saveVars, textVars, serverVars, facadeVars, sideVars>>

(***************************************************************************)
(* Backend (server.js): the product table, the bucket and the handler of   *)
(* PATCH /api/products/:sku                                                *)
(***************************************************************************)
\* rows of the product table; the handler inserts and deletes none
ExistingSkus == {"ABC-123", "XYZ-9"}
\* the :sku of a request: a row that exists and one that does not
RequestSkus == {"ABC-123", "NOPE-0"}
\* product.category of each row
category == ("ABC-123" :> "Rings" @@ "XYZ-9" :> NULL)

ImageColumns == {"pre_image_url", "sketch_image_url", "wax_image_url",
                 "cast_image_url", "final_image_url"}
TextColumns == {"product_name", "sketch_description", "sketch_image_alt_text",
                "wax_description", "cast_description", "final_description",
                "wax_image_alt_text", "cast_image_alt_text", "final_image_alt_text",
                "meta_title", "meta_description"}
\* the columns of the table: those an UPDATE of the handler can set, and
\* status, which the listing reads and no handler writes
Columns == ImageColumns \cup TextColumns \cup {"modified_at", "status"}

\* the type, dataType and payload fields a request can carry
Types == {"Pre", "Wax", "Meta_title"}
DataTypes == {"Image", "Description", "Other"}
Title == "Custom Gold Ring"
Payloads ==
    {[image |-> "f1", originalImage |-> "o1", description |-> NULL],
     [image |-> "f2", originalImage |-> "o1", description |-> NULL],
     [image |-> NULL, originalImage |-> NULL, description |-> ""],
     [image |-> NULL, originalImage |-> NULL, description |-> Title]}

CDN_BASE_URL == "https://cdn"

SEO_KEYWORDS ==
    <<"custom-jewelry", "personalized-jewelry", "modern-texas", "bespoke-jewelry",
      "custom-jewelry", "unique-engagement", "tailor-made-jewelry", "trendy-jewelry",
      "handcrafted-jewelry", "custom-engagement", "custom-bridal",
      "custom-promise-jewelry", "rich-aesthetic", "luxury-jewelry", "premium-quality",
      "design-your-own", "millennial-style", "trending-jewelry", "best-selling",
      "top-rated">>

\* A SKU string is kept as its runs of equal characters: <<ch, n>> is ch
\* repeated n times, <<>> the empty string. The request SKUs as such strings:
skuString ==
    ("ABC-123" :> <<<<"A", 1>>, <<"B", 1>>, <<"C", 1>>, <<"-", 1>>,
                    <<"1", 1>>, <<"2", 1>>, <<"3", 1>>>>
     @@ "XYZ-9" :> <<<<"X", 1>>, <<"Y", 1>>, <<"Z", 1>>, <<"-", 1>>, <<"9", 1>>>>
     @@ "NOPE-0" :> <<<<"N", 1>>, <<"O", 1>>, <<"P", 1>>, <<"E", 1>>, <<"-", 1>>,
                      <<"0", 1>>>>)

Digits == ("0" :> 0 @@ "1" :> 1 @@ "2" :> 2 @@ "3" :> 3 @@ "4" :> 4 @@ "5" :> 5
           @@ "6" :> 6 @@ "7" :> 7 @@ "8" :> 8 @@ "9" :> 9)

\* char.charCodeAt(0) of the characters that occur
charCodeAt ==
    ("-" :> 45 @@ "0" :> 48 @@ "1" :> 49 @@ "2" :> 50 @@ "3" :> 51 @@ "4" :> 52
     @@ "5" :> 53 @@ "6" :> 54 @@ "7" :> 55 @@ "8" :> 56 @@ "9" :> 57
     @@ "A" :> 65 @@ "B" :> 66 @@ "C" :> 67 @@ "E" :> 69 @@ "N" :> 78 @@ "O" :> 79
     @@ "P" :> 80 @@ "X" :> 88 @@ "Y" :> 89 @@ "Z" :> 90)

\* sku.replace(/\D/g, ''): the digits of the string, in order
replaceNonDigits(sku) == SelectSeq(sku, LAMBDA run : run[1] \in DOMAIN Digits)

RECURSIVE stripLeadingZeros(_)
stripLeadingZeros(digits) ==
    IF digits = <<>> THEN digits
    ELSE IF digits[1][1] = "0" THEN stripLeadingZeros(Tail(digits)) ELSE digits

RECURSIVE length(_)
length(str) == IF str = <<>> THEN 0 ELSE str[1][2] + length(Tail(str))

RECURSIVE decimalValue(_, _)
decimalValue(acc, digits) ==
    IF digits = <<>> THEN acc
    ELSE IF digits[1][2] = 0 THEN decimalValue(acc, Tail(digits))
    ELSE decimalValue(acc * 10 + Digits[digits[1][1]],
                      <<<<digits[1][1], digits[1][2] - 1>>>> \o Tail(digits))

\* integers of up to ExactDigits digits are computed exactly here (a double
\* is exact up to 15); a decimal integer of InfiniteDigits digits or more is
\* above the largest double, 1.8e308, and converts to Infinity
ExactDigits == 9
InfiniteDigits == 310

\* parseInt(digits, 10) of a string of digits: NaN for the empty string.
\* Strings with more than ExactDigits and fewer than InfiniteDigits
\* significant digits (rounded doubles) are not among the inputs.
parseInt(digits) ==
    LET significant == stripLeadingZeros(digits)
    IN  CASE digits = <<>> -> [kind |-> "NaN", value |-> 0]
          [] digits # <<>> /\ length(significant) <= ExactDigits ->
                [kind |-> "finite", value |-> decimalValue(0, significant)]
          [] digits # <<>> /\ length(significant) >= InfiniteDigits ->
                [kind |-> "Infinity", value |-> 0]

\* sku.split('').reduce((acc, char) => acc + char.charCodeAt(0), 0)
RECURSIVE charCodeSum(_)
charCodeSum(sku) ==
    IF sku = <<>> THEN 0 ELSE charCodeAt[sku[1][1]] * sku[1][2] + charCodeSum(Tail(sku))

\* let numericSku = parseInt(...); if (isNaN(numericSku)) numericSku = the sum
numericSku(sku) ==
    LET parsed == parseInt(replaceNonDigits(sku))
    IN  IF parsed.kind = "NaN" THEN [kind |-> "finite", value |-> charCodeSum(sku)]
        ELSE parsed

\* what JavaScript prints for an array element that does not exist
UNDEFINED == "undefined"

\* const index = numericSku % SEO_KEYWORDS.length: Infinity % 20 is NaN
keywordIndex(sku) ==
    LET n == numericSku(sku)
    IN  IF n.kind = "finite"
        THEN [kind |-> "finite", value |-> n.value % Len(SEO_KEYWORDS)]
        ELSE [kind |-> "NaN", value |-> 0]

\* return SEO_KEYWORDS[index]: undefined when index is NaN
getConsistentKeyword(sku) ==
    LET index == keywordIndex(sku)
    IN  IF index.kind = "finite" THEN SEO_KEYWORDS[index.value + 1] ELSE UNDEFINED

\* createSeoSlug on the texts that occur: lower case, blanks to dashes
createSeoSlug(text) ==
    CASE text = NULL -> "untitled"
      [] text = "" -> "untitled"
      [] text = Title -> "custom-gold-ring"
      [] text = "Rings" -> "rings"
      [] text = "uncategorized" -> "uncategorized"

\* type.toLowerCase()
toLowerCase == ("Pre" :> "pre" @@ "Wax" :> "wax" @@ "Meta_title" :> "meta_title"
                @@ "" :> "" @@ "Filled" :> "filled" @@ "fulfilled" :> "fulfilled"
                @@ "pending" :> "pending" @@ "draft" :> "draft")

fileMiddlePart(typeLower) ==
    CASE typeLower = "sketch" -> "concept-sketch-drawing"
      [] typeLower = "wax" -> "3d-wax-model"
      [] typeLower = "cast" -> "raw-gold-cast"
      [] typeLower = "final" -> "finished-polish"
      [] OTHER -> "design"

fieldMapTitleMisrouted ==
    ("Product_name" :> "product_name" @@ "Sketch_description" :> "sketch_description"
     @@ "Sketch_alt" :> "sketch_image_alt_text" @@ "Wax_description" :> "wax_description"
     @@ "Cast_description" :> "cast_description" @@ "Final_description" :> "final_description"
     @@ "Wax_alt" :> "wax_image_alt_text" @@ "Cast_alt" :> "cast_image_alt_text"
     @@ "Final_alt" :> "final_image_alt_text" @@ "Meta_title" :> "meta_description"
     @@ "Meta_description" :> "meta_description")

fieldMapWithoutSketch ==
    ("Product_name" :> "product_name" @@ "Wax_description" :> "wax_description"
     @@ "Cast_description" :> "cast_description" @@ "Final_description" :> "final_description"
     @@ "Wax_alt" :> "wax_image_alt_text" @@ "Cast_alt" :> "cast_image_alt_text"
     @@ "Final_alt" :> "final_image_alt_text" @@ "Meta_title" :> "meta_title"
     @@ "Meta_description" :> "meta_description")

fieldMap ==
    ("Product_name" :> "product_name" @@ "Sketch_description" :> "sketch_description"
     @@ "Sketch_alt" :> "sketch_image_alt_text" @@ "Wax_description" :> "wax_description"
     @@ "Cast_description" :> "cast_description" @@ "Final_description" :> "final_description"
     @@ "Wax_alt" :> "wax_image_alt_text" @@ "Cast_alt" :> "cast_image_alt_text"
     @@ "Final_alt" :> "final_image_alt_text" @@ "Meta_title" :> "meta_title"
     @@ "Meta_description" :> "meta_description")

truthyNonNull(v) == v # NULL

\* JavaScript truthiness of a nullable string
truthy(v) == v # NULL /\ v # ""

fieldToUpdateDefaulting(type) ==
    IF type \in DOMAIN fieldMap THEN fieldMap[type] ELSE "product_name"

\* const fieldToUpdate = fieldMap[type]: undefined for a type that is not a key
fieldToUpdate(type) == IF type \in DOMAIN fieldMap THEN fieldMap[type] ELSE NULL

NoRequest ==
    [pc |-> "free", sku |-> NULL, type |-> NULL, dataType |-> NULL,
     image |-> NULL, originalImage |-> NULL, description |-> NULL,
     client |-> FALSE, rowCount |-> -1, metaTitle |-> NULL, preImageUrl |-> NULL,
     folder |-> NULL, filename |-> NULL, updateFields |-> <<>>,
     status |-> 0, outcome |-> NULL, uploads |-> 0, updates |-> 0, wrote |-> FALSE]

Slots == 1..MaxInFlight
\* the slot a new request is handled in
FreeSlot == CHOOSE r \in Slots :
               /\ requests[r].pc = "free"
               /\ \A q \in Slots : requests[q].pc = "free" => r <= q

\* a response is sent in the turn of the event loop that produced it: no
\* other handler runs between a handler's last step and its response
NoResponseDue == \A r \in Slots : requests[r].pc # "done"

Arrived(sku, type, dataType, payload) ==
    [NoRequest EXCEPT !.sku = sku, !.type = type, !.dataType = dataType,
                      !.image = payload.image,
                      !.originalImage = payload.originalImage,
                      !.description = payload.description]

\* the request arrives, multer has parsed its fields and files, and
\* client = await pool.connect() resolves
Receive(sku, type, dataType, payload) ==
    /\ NoResponseDue
    /\ \E r \in Slots : requests[r].pc = "free"
    /\ issued < MaxRequests
    /\ issued' = issued + 1
    /\ requests' = [requests EXCEPT ![FreeSlot] =
          [Arrived(sku, type, dataType, payload) EXCEPT !.pc = "find", !.client = TRUE]]
    /\ checkedOut' = checkedOut + 1
    /\ UNCHANGED <<rows, bucket, clock, saved>>
    /\ UNCHANGED <<clientVars, facadeVars, sideVars>>

\* the UPDATE statements of a request once it leaves pc: one more when it
\* was awaiting client.query(updateQuery, queryParams)
issuedUpdates(req) == IF req.pc = "update" THEN req.updates + 1 ELSE req.updates

FinishNoRelease(r, status, outcome, wrote) ==
    /\ requests' = [requests EXCEPT ![r].pc = "done", ![r].status = status,
                                    ![r].outcome = outcome, ![r].wrote = wrote,
                                    ![r].updates = issuedUpdates(requests[r]),
                                    ![r].client = FALSE]
    /\ checkedOut' = checkedOut

\* res.status(status).json(...) followed by finally { if (client) client.release() }
Finish(r, status, outcome, wrote) ==
    /\ requests' = [requests EXCEPT ![r].pc = "done", ![r].status = status,
                                    ![r].outcome = outcome, ![r].wrote = wrote,
                                    ![r].updates = issuedUpdates(requests[r]),
                                    ![r].client = FALSE]
    /\ checkedOut' = IF requests[r].client THEN checkedOut - 1 ELSE checkedOut

\* the request arrives and pool.connect() rejects: catch answers 500,
\* client is still undefined
ConnectFails(sku, type, dataType, payload) ==
    /\ NoResponseDue
    /\ \E r \in Slots : requests[r].pc = "free"
    /\ issued < MaxRequests
    /\ issued' = issued + 1
    /\ requests' = [requests EXCEPT ![FreeSlot] =
          [Arrived(sku, type, dataType, payload) EXCEPT
              !.pc = "done", !.status = 500, !.outcome = "UnexpectedFailure"]]
    /\ UNCHANGED <<rows, bucket, checkedOut, clock, saved>>
    /\ UNCHANGED <<clientVars, facadeVars, sideVars>>

\* SELECT * FROM table WHERE sku = $1
findQuery(table, sku) ==
    IF sku \in DOMAIN table
    THEN [rowCount |-> 1, rows |-> <<table[sku]>>]
    ELSE [rowCount |-> 0, rows |-> <<>>]

skuMissingNever(findResult) == findResult.rowCount < 0

\* if (findResult.rowCount === 0)
skuMissing(findResult) == findResult.rowCount = 0

metaTitleMissingNullOnly(product) == product["meta_title"] = NULL
metaTitleMissingNever(product) == FALSE

\* if (!product.meta_title)
metaTitleMissing(product) == ~truthy(product["meta_title"])

\* an early return with a status, or the state at the next await
Reject(status, outcome) ==
    [pc |-> "done", status |-> status, outcome |-> outcome,
     folder |-> NULL, filename |-> NULL, updateFields |-> <<>>]
Proceed(pc, folder, filename, updateFields) ==
    [pc |-> pc, status |-> 0, outcome |-> NULL,
     folder |-> folder, filename |-> filename, updateFields |-> updateFields]

\* the image branch after the file check: folder, file name and column
ImagePlan(req, product) ==
    LET categoryRaw == IF truthy(category[req.sku]) THEN category[req.sku] ELSE "uncategorized"
        targetFolder == createSeoSlug(categoryRaw) \o "/" \o req.sku
        typeLower == toLowerCase[req.type]
    IN  IF typeLower = "pre"
        THEN Proceed("upload", targetFolder, req.sku \o "-pre.webp",
                     <<<<"pre_image_url", NULL>>>>)
        ELSE IF metaTitleMissing(product)
        THEN Reject(400, "PreconditionFailed")
        ELSE Proceed("upload", targetFolder,
                     getConsistentKeyword(skuString[req.sku]) \o "-"
                        \o createSeoSlug(product["meta_title"]) \o "-"
                        \o fileMiddlePart(typeLower) \o "-cd-" \o req.sku \o ".webp",
                     <<<<typeLower \o "_image_url", NULL>>>>)

\* the handler from the answer of the SELECT to its next await or return;
\* reading product.category of a missing row throws and is caught as a 500
Decide(req, findResult) ==
    IF skuMissing(findResult) THEN Reject(404, "NotFound")
    ELSE IF req.dataType = "Image"
    THEN IF req.image = NULL THEN Reject(400, "InvalidInput")
         ELSE IF findResult.rowCount = 0 THEN Reject(500, "UnexpectedFailure")
         ELSE ImagePlan(req, findResult.rows[1])
    ELSE IF req.dataType = "Description"
    THEN IF ~truthy(req.description) THEN Reject(400, "InvalidInput")
         ELSE IF ~truthy(fieldToUpdate(req.type)) THEN Reject(400, "InvalidTarget")
         ELSE Proceed("update", NULL, NULL, <<<<fieldToUpdate(req.type), req.description>>>>)
    ELSE Proceed("update", NULL, NULL, <<>>)

\* the SELECT answered: the 404 check and everything up to the next await
Find(r) ==
    LET req == requests[r]
        findResult == findQuery(rows, req.sku)
        d == Decide(req, findResult)
    IN
    /\ NoResponseDue
    /\ req.pc = "find"
    /\ requests' = [requests EXCEPT ![r] =
          [req EXCEPT !.pc = d.pc, !.status = d.status, !.outcome = d.outcome,
                      !.folder = d.folder, !.filename = d.filename,
                      !.updateFields = d.updateFields,
                      !.rowCount = findResult.rowCount,
                      !.metaTitle = IF findResult.rowCount > 0
                                    THEN findResult.rows[1]["meta_title"] ELSE NULL,
                      !.preImageUrl = IF findResult.rowCount > 0
                                      THEN findResult.rows[1]["pre_image_url"] ELSE NULL,
                      !.client = (d.pc # "done")]]
    /\ checkedOut' = IF d.pc = "done" THEN checkedOut - 1 ELSE checkedOut
    /\ UNCHANGED <<rows, bucket, clock, issued, saved>>
    /\ UNCHANGED <<clientVars, facadeVars, sideVars>>

\* the SELECT rejects: catch answers 500, finally releases
FindFails(r) ==
    /\ NoResponseDue
    /\ requests[r].pc = "find"
    /\ Finish(r, 500, "UnexpectedFailure", FALSE)
    /\ UNCHANGED <<rows, bucket, clock, issued, saved>>
    /\ UNCHANGED <<clientVars, facadeVars, sideVars>>

\* uploadToCloud: put the object under folderPath/filename, answer its URL
uploadToCloud(b, fileBuffer, filename, folderPath) ==
    LET key == folderPath \o "/" \o filename
    IN  [bucket |-> (key :> fileBuffer) @@ b, url |-> CDN_BASE_URL \o "/" \o key]

\* the awaited upload resolved: the URL becomes the value of the column
Upload(r) ==
    LET req == requests[r]
        up == uploadToCloud(bucket, req.image, req.filename, req.folder)
    IN
    /\ NoResponseDue
    /\ req.pc = "upload"
    /\ bucket' = up.bucket
    /\ requests' = [requests EXCEPT ![r].pc = "update",
                                    ![r].uploads = req.uploads + 1,
                                    ![r].updateFields = <<<<req.updateFields[1][1], up.url>>>>]
    /\ UNCHANGED <<rows, checkedOut, clock, issued, saved>>
    /\ UNCHANGED <<clientVars, facadeVars, sideVars>>

\* s3Client.send rejects: uploadToCloud throws, catch answers 500
UploadFails(r) ==
    /\ NoResponseDue
    /\ requests[r].pc = "upload"
    /\ Finish(r, 500, "StorageFailure", FALSE)
    /\ UNCHANGED <<rows, bucket, clock, issued, saved>>
    /\ UNCHANGED <<clientVars, facadeVars, sideVars>>

updateQueryTimestampOnly(table, sku, updateFields, now) ==
    [s \in DOMAIN table |->
        IF s # sku THEN table[s] ELSE [table[s] EXCEPT !["modified_at"] = now]]

updateQueryAllRows(table, sku, updateFields, now) ==
    [s \in DOMAIN table |->
        [c \in Columns |->
            IF c = "modified_at" THEN now
            ELSE IF \E k \in 1..Len(updateFields) : updateFields[k][1] = c
            THEN LET k == CHOOSE k \in 1..Len(updateFields) : updateFields[k][1] = c
                 IN  updateFields[k][2]
            ELSE table[s][c]]]

\* UPDATE table SET updateFields, modified_at = NOW() WHERE sku = $1
updateQuery(table, sku, updateFields, now) ==
    [s \in DOMAIN table |->
        IF s # sku THEN table[s]
        ELSE [c \in Columns |->
                IF c = "modified_at" THEN now
                ELSE IF \E k \in 1..Len(updateFields) : updateFields[k][1] = c
                THEN LET k == CHOOSE k \in 1..Len(updateFields) : updateFields[k][1] = c
                     IN  updateFields[k][2]
                ELSE table[s][c]]]

\* the UPDATE answered: success unless it names a column the table lacks
Update(r) ==
    LET req == requests[r] IN
    /\ NoResponseDue
    /\ req.pc = "update"
    /\ IF \A k \in 1..Len(req.updateFields) : req.updateFields[k][1] \in Columns
       THEN /\ rows' = updateQuery(rows, req.sku, req.updateFields, clock + 1)
            /\ clock' = clock + 1
            /\ saved' = saved \cup {<<req.sku, req.dataType, req.type>>}
            /\ Finish(r, 200, NULL, TRUE)
       ELSE /\ Finish(r, 500, "UnexpectedFailure", FALSE)
            /\ UNCHANGED <<rows, clock, saved>>
    /\ UNCHANGED <<bucket, issued>>
    /\ UNCHANGED <<clientVars, facadeVars, sideVars>>

\* the UPDATE rejects for a reason of the database: catch answers 500
UpdateFails(r) ==
    /\ NoResponseDue
    /\ requests[r].pc = "update"
    /\ Finish(r, 500, "UnexpectedFailure", FALSE)
    /\ UNCHANGED <<rows, bucket, clock, issued, saved>>
    /\ UNCHANGED <<clientVars, facadeVars, sideVars>>

\* the response has been sent; the slot serves the next request
Respond(r) ==
    /\ requests[r].pc = "done"
    /\ requests' = [requests EXCEPT ![r] = NoRequest]
    /\ UNCHANGED <<rows, bucket, checkedOut, clock, issued, saved>>
    /\ UNCHANGED <<clientVars, facadeVars, sideVars>>

EmptyRow == [c \in Columns |-> IF c = "modified_at" THEN 0 ELSE NULL]

\* no request in progress, every column null
ServerQuiet ==
    /\ rows = [s \in ExistingSkus |-> EmptyRow]
    /\ bucket = <<>>
    /\ requests = [r \in Slots |-> NoRequest]
    /\ checkedOut = 0
    /\ clock = 0
    /\ issued = 0
    /\ saved = {}

\* every image column is null and no meta title has been saved: the
\* column is null or the empty string
ServerInit ==
    /\ rows \in {[s \in ExistingSkus |->
                    [EmptyRow EXCEPT !["meta_title"] = IF s = "ABC-123" THEN t ELSE NULL]]
                 : t \in {NULL, ""}}
    /\ bucket = <<>>
    /\ requests = [r \in Slots |-> NoRequest]
    /\ checkedOut = 0
    /\ clock = 0
    /\ issued = 0
    /\ saved = {}

(***************************************************************************)
(* Backend (server.js): the handler of GET /api/products                   *)
(***************************************************************************)
\* the twelve fields the listing counts as filled_count in the version of
\* the handler that computes the status itself
TrackedFields == {"wax_image_url", "cast_image_url", "final_image_url",
                  "wax_description", "cast_description", "final_description",
                  "wax_image_alt_text", "cast_image_alt_text", "final_image_alt_text",
                  "meta_title", "meta_description", "product_name"}

\* let statusColor = 'normal'; const status = (row.status || '').toLowerCase()
statusColor(row) ==
    LET status == toLowerCase[IF truthy(row["status"]) THEN row["status"] ELSE ""]
    IN  IF status = "filled" \/ status = "fulfilled" THEN "green"
        ELSE IF status = "pending" THEN "orange"
        ELSE "normal"

\* one element of result.rows.map(row => ...)
product(sku, row) ==
    [sku |-> sku,
     category |-> IF truthy(category[sku]) THEN category[sku] ELSE "Uncategorized",
     meta_title |-> row["meta_title"],
     statusColor |-> statusColor(row)]

\* ORDER BY category ASC, sku ASC of the rows: a null category sorts last
listOrder == <<"ABC-123", "XYZ-9">>

\* SELECT sku, category, meta_title, status FROM table ORDER BY ...
listQuery(table) == [k \in 1..Len(listOrder) |-> [sku |-> listOrder[k], row |-> table[listOrder[k]]]]

NoListing == [pc |-> "free", client |-> FALSE, status |-> 0, body |-> <<>>]

FreeListing == CHOOSE r \in Slots :
                  /\ listings[r].pc = "free"
                  /\ \A q \in Slots : listings[q].pc = "free" => r <= q

\* the request arrives and client = await pool.connect() resolves
ListReceive ==
    /\ \E r \in Slots : listings[r].pc = "free"
    /\ listed < MaxListings
    /\ listed' = listed + 1
    /\ listings' = [listings EXCEPT ![FreeListing] =
                       [NoListing EXCEPT !.pc = "query", !.client = TRUE]]
    /\ checkedOut' = checkedOut + 1
    /\ UNCHANGED <<rows, bucket, requests, clock, issued, saved>>
    /\ UNCHANGED <<clientVars, facadeVars, keywordVars, dbCallVars>>

\* PG_TABLE is not configured or pool.connect() rejects: catch answers 500
\* before any connection is held
ListConnectFails ==
    /\ \E r \in Slots : listings[r].pc = "free"
    /\ listed < MaxListings
    /\ listed' = listed + 1
    /\ listings' = [listings EXCEPT ![FreeListing] =
                       [NoListing EXCEPT !.pc = "done", !.status = 500]]
    /\ UNCHANGED <<serverVars, clientVars, facadeVars, keywordVars, dbCallVars>>

\* the SELECT answered: client.release(), then res.json(products)
ListQuery(r) ==
    /\ listings[r].pc = "query"
    /\ checkedOut' = checkedOut - 1
    /\ listings' = [listings EXCEPT ![r] =
                       [pc |-> "done", client |-> FALSE, status |-> 200,
                        body |-> LET result == listQuery(rows)
                                 IN  [k \in 1..Len(result) |->
                                         product(result[k].sku, result[k].row)]]]
    /\ UNCHANGED <<rows, bucket, requests, clock, issued, saved, listed>>
    /\ UNCHANGED <<clientVars, facadeVars, keywordVars, dbCallVars>>

\* the SELECT rejects: control passes to catch, which answers 500; the
\* handler has no finally and the catch block does not release the client
ListQueryFails(r) ==
    /\ listings[r].pc = "query"
    /\ listings' = [listings EXCEPT ![r] =
                       [pc |-> "done", client |-> TRUE, status |-> 500, body |-> <<>>]]
    /\ UNCHANGED <<serverVars, listed>>
    /\ UNCHANGED <<clientVars, facadeVars, keywordVars, dbCallVars>>

\* the response has been sent; the slot serves the next request
ListRespond(r) ==
    /\ listings[r].pc = "done"
    /\ listings' = [listings EXCEPT ![r] = NoListing]
    /\ UNCHANGED <<serverVars, listed>>
    /\ UNCHANGED <<clientVars, facadeVars, keywordVars, dbCallVars>>

ListingQuiet ==
    /\ listings = [r \in Slots |-> NoListing]
    /\ listed = 0

\* the fields of a product that previous updates have set
Fills == {{}, {"meta_title"}, TrackedFields \ {"product_name"}, TrackedFields}

filledRow(fields, status) ==
    [c \in Columns |->
        IF c = "status" THEN status
        ELSE IF c \notin fields THEN EmptyRow[c]
        ELSE IF c \in ImageColumns THEN CDN_BASE_URL \o "/rings/ABC-123/" \o c \o ".webp"
        ELSE Title]

\* the table when the listing is asked for: one product with some of its
\* fields set and some status, one with nothing set
ListingInit ==
    /\ rows \in {[s \in ExistingSkus |->
                    IF s = "ABC-123" THEN filledRow(fields, status) ELSE EmptyRow]
                 : fields \in Fills,
                   status \in {NULL, "Filled", "fulfilled", "pending", "draft"}}
    /\ bucket = <<>>
    /\ requests = [r \in Slots |-> NoRequest]
    /\ checkedOut = 0
    /\ clock = 0
    /\ issued = 0
    /\ saved = {}
    /\ ListingQuiet

(***************************************************************************)
(* AI service (geminiService.ts): the response handling of the             *)
(* image-producing calls                                                   *)
(***************************************************************************)
\* the fields of a GenerateContentResponse that handleApiResponse reads
BlockReasons == {NULL, "SAFETY"}
InlineData == {NULL, "iVBOR"}
FinishReasons == {NULL, "STOP", "SAFETY", "MAX_TOKENS"}
Texts == {NULL, "", "  ", " sorry "}
Contexts == {"edit", "filter", "adjustment"}

\* response.candidates: absent, or one candidate with its image part and
\* finish reason
Candidates ==
    {<<>>} \cup {<<[inlineData |-> d, finishReason |-> f]>> :
                    d \in InlineData, f \in FinishReasons}

Responses ==
    {[blockReason |-> b, candidates |-> c, text |-> t] :
        b \in BlockReasons, c \in Candidates, t \in Texts}

NoResponse == [blockReason |-> NULL, candidates |-> <<>>, text |-> NULL]

\* String.prototype.trim on the texts that occur
trim == ("" :> "" @@ "  " :> "" @@ " sorry " :> "sorry")

\* `data:${mimeType};base64,${data}`
dataUrl(mimeType, data) == "data:" \o mimeType \o ";base64," \o data

Returned(url, context) ==
    [kind |-> "returned", value |-> url, context |-> context]
\* throw new Error(errorMessage): the throw site and what its message embeds
Thrown(kind, detail, context) ==
    [kind |-> kind, value |-> detail, context |-> context]

NoResult == [kind |-> NULL, value |-> NULL, context |-> NULL]

handleApiResponseStopFirst(response, context) ==
    LET candidate == IF Len(response.candidates) > 0 THEN response.candidates[1]
                     ELSE [inlineData |-> NULL, finishReason |-> NULL]
        textFeedback == IF response.text = NULL THEN NULL ELSE trim[response.text]
    IN  IF truthy(response.blockReason)
        THEN Thrown("Blocked", response.blockReason, context)
        ELSE IF truthy(candidate.finishReason) /\ candidate.finishReason # "STOP"
        THEN Thrown("GenerationStopped", candidate.finishReason, context)
        ELSE IF candidate.inlineData # NULL
        THEN Returned(dataUrl("image/png", candidate.inlineData), context)
        ELSE Thrown("EmptyResult", IF truthy(textFeedback) THEN textFeedback ELSE NULL,
                    context)

\* handleApiResponse: block reason, then image part, then finish reason,
\* then the text of the response
handleApiResponse(response, context) ==
    LET candidate == IF Len(response.candidates) > 0 THEN response.candidates[1]
                     ELSE [inlineData |-> NULL, finishReason |-> NULL]
        textFeedback == IF response.text = NULL THEN NULL ELSE trim[response.text]
    IN  IF truthy(response.blockReason)
        THEN Thrown("Blocked", response.blockReason, context)
        ELSE IF candidate.inlineData # NULL
        THEN Returned(dataUrl("image/png", candidate.inlineData), context)
        ELSE IF truthy(candidate.finishReason) /\ candidate.finishReason # "STOP"
        THEN Thrown("GenerationStopped", candidate.finishReason, context)
        ELSE Thrown("EmptyResult", IF truthy(textFeedback) THEN textFeedback ELSE NULL,
                    context)

\* await imageAI.models.generateContent(...) resolves with a response
generateContent(context, response) ==
    /\ apiCall = "idle"
    /\ apiCall' = "received"
    /\ apiContext' = context
    /\ apiResponse' = response
    /\ apiResult' = NoResult
    /\ UNCHANGED <<clientVars, serverVars, sideVars>>

\* return handleApiResponse(response, context)
HandleResponse ==
    /\ apiCall = "received"
    /\ apiCall' = "handled"
    /\ apiResult' = handleApiResponse(apiResponse, apiContext)
    /\ UNCHANGED <<apiResponse, apiContext>>
    /\ UNCHANGED <<clientVars, serverVars, sideVars>>

\* the caller has taken the data URL or caught the error
CallSettled ==
    /\ apiCall = "handled"
    /\ apiCall' = "idle"
    /\ apiResponse' = NoResponse
    /\ apiContext' = NULL
    /\ apiResult' = NoResult
    /\ UNCHANGED <<clientVars, serverVars, sideVars>>

FacadeIdle ==
    /\ apiCall = "idle"
    /\ apiResponse = NoResponse
    /\ apiContext = NULL
    /\ apiResult = NoResult

(***************************************************************************)
(* getConsistentKeyword (server.js) called on arbitrary SKU strings        *)
(***************************************************************************)
\* the characters of the SKU strings and the lengths of their runs; LongRun
\* digits are more than a double can hold
LongRun == 400
SkuStrings ==
    UNION {[1..n -> {"A", "-", "0", "7"} \X {1, 2, LongRun}] : n \in 0..MaxRuns}

\* one call getConsistentKeyword(kwSku)
CallKeyword ==
    /\ Len(kwCalls) < MaxCalls
    /\ kwCalls' = Append(kwCalls, getConsistentKeyword(kwSku))
    /\ UNCHANGED kwSku
    /\ UNCHANGED <<clientVars, serverVars, facadeVars, listingVars, dbCallVars>>

KeywordIdle ==
    /\ kwSku = <<>>
    /\ kwCalls = <<>>

KeywordInit ==
    /\ kwSku \in SkuStrings
    /\ kwCalls = <<>>

(***************************************************************************)
(* The save call of the client (databaseService.ts, updateProductInDB)     *)
(***************************************************************************)
\* what fetch resolves with: the status, whether the body parses as JSON,
\* and the body
FetchResponses ==
    {[status |-> 200, json |-> TRUE,
      body |-> [success |-> TRUE, message |-> "Successfully updated"]],
     [status |-> 404, json |-> TRUE,
      body |-> [success |-> FALSE, message |-> "Update failed: SKU not found."]],
     [status |-> 400, json |-> TRUE,
      body |-> [success |-> FALSE, message |-> "No image file provided."]],
     [status |-> 500, json |-> TRUE,
      body |-> [success |-> FALSE, message |-> "Server error: connection refused"]],
     [status |-> 500, json |-> TRUE, body |-> [success |-> FALSE, message |-> NULL]],
     [status |-> 200, json |-> FALSE, body |-> [success |-> FALSE, message |-> NULL]],
     [status |-> 204, json |-> FALSE, body |-> [success |-> FALSE, message |-> NULL]],
     [status |-> 502, json |-> FALSE, body |-> [success |-> FALSE, message |-> NULL]]}

\* response.ok
ok(response) == response.status \in 200..299

Pending == [settled |-> "pending", by |-> NULL,
            value |-> [success |-> FALSE, message |-> NULL]]
Resolved(by, value) == [settled |-> "resolved", by |-> by, value |-> value]
caughtRethrown(message) ==
    [settled |-> "rejected", by |-> "throw",
     value |-> [success |-> FALSE, message |-> message]]

\* catch (error) { return { success: false, message: errorMessage } }
caught(message) == Resolved("catch", [success |-> FALSE, message |-> message])

\* the body of try after fetch resolved: response.json(), the ok check,
\* return responseData
afterFetch(response) ==
    IF ~response.json THEN caught("Unexpected token < in JSON")
    ELSE IF ~ok(response)
    THEN caught(IF truthy(response.body.message) THEN response.body.message
                ELSE "Server responded with status: " \o ToString(response.status))
    ELSE Resolved("responseData", response.body)

\* dataType === 'Image' && data instanceof File, or
\* dataType === 'Description' && typeof data === 'string'
validData(dataType, data) ==
    \/ dataType = "Image" /\ data = "File"
    \/ dataType = "Description" /\ data = "string"

\* the save targets a call is made with
SaveTypes == {"Wax", "Cast", "Final", "Wax_description", "Meta_title"}

NoCall == [pc |-> "idle", type |-> NULL, dataType |-> NULL, data |-> NULL,
           fetched |-> "no",
           response |-> [status |-> 0, json |-> FALSE,
                         body |-> [success |-> FALSE, message |-> NULL]]]

\* updateProductInDB up to its await: the form is filled, or the call
\* returns at once for data that does not fit the dataType
updateProductInDB(type, dataType, data) ==
    /\ dbCall.pc = "idle"
    /\ IF validData(dataType, data)
       THEN /\ dbCall' = [NoCall EXCEPT !.pc = "fetch", !.type = type,
                                        !.dataType = dataType, !.data = data]
            /\ dbResult' = Pending
       ELSE /\ dbCall' = [NoCall EXCEPT !.pc = "settled", !.type = type,
                                        !.dataType = dataType, !.data = data]
            /\ dbResult' = Resolved("guard", [success |-> FALSE,
                                    message |-> "Invalid data provided for update."])
    /\ UNCHANGED <<clientVars, serverVars, facadeVars, listingVars, keywordVars>>

\* await fetch(...) resolved with a response of the server
FetchResolved(response) ==
    /\ dbCall.pc = "fetch"
    /\ dbCall' = [dbCall EXCEPT !.pc = "settled", !.fetched = "resolved",
                                !.response = response]
    /\ dbResult' = afterFetch(response)
    /\ UNCHANGED <<clientVars, serverVars, facadeVars, listingVars, keywordVars>>

\* await fetch(...) rejected: the server cannot be reached
FetchRejected ==
    /\ dbCall.pc = "fetch"
    /\ dbCall' = [dbCall EXCEPT !.pc = "settled", !.fetched = "rejected"]
    /\ dbResult' = caught("Failed to fetch")
    /\ UNCHANGED <<clientVars, serverVars, facadeVars, listingVars, keywordVars>>

\* the caller has taken the result
DbCallTaken ==
    /\ dbCall.pc = "settled"
    /\ dbCall' = NoCall
    /\ dbResult' = Pending
    /\ UNCHANGED <<clientVars, serverVars, facadeVars, listingVars, keywordVars>>

DbCallIdle ==
    /\ dbCall = NoCall
    /\ dbResult = Pending

ClientInit ==
    /\ images = <<>>
    /\ selectedImageId = NoId
    /\ isLoading = FALSE
    /\ error = NULL
    /\ editHotspot = FALSE
    /\ completedCrop = FALSE
    /\ aiRequests = <<>>
    /\ nextFile = 0
    /\ opLog = <<>>
    /\ isSaving = FALSE
    /\ isSaveModalOpen = FALSE
    /\ itemToSave = NULL
    /\ saveRequests = <<>>
    /\ nextText = 0
    /\ savedText = [id \in 1..MaxFiles |-> NULL]

Init == ClientInit /\ ServerQuiet /\ FacadeIdle /\ ListingQuiet /\ KeywordIdle /\ DbCallIdle

SessionNext ==
    \/ \E n \in 1..MaxUpload : handleFilesUpload(n)
    \/ \E id \in 1..MaxFiles : handleSelectImage(id)
    \/ handleImageClick
    \/ setCompletedCrop
    \/ handleApplyCrop
    \/ handleUndo
    \/ handleRedo
    \/ handleReset
    \/ handleGenerate
    \/ \E kind \in {"filter", "adjustment"} : handleApplyFilter(kind)
    \/ \E k \in 1..MaxFiles : AiResolved(k)
    \/ \E k \in 1..MaxFiles, failure \in AiFailures : AiRejected(k, failure)
    \/ \E itemType \in {"Image", "Description"} : handleInitiateSave(itemType)
    \/ closeSaveModal
    \/ handleSaveToDb
    \/ \E k \in 1..MaxFiles : SaveSucceeded(k)
    \/ \E k \in 1..MaxFiles : SaveFailed(k)
    \/ handleUploadNew
    \/ dismissError

SessionSpec == Init /\ [][SessionNext]_vars

\* the session in which every awaited call eventually settles: the AI
\* service and the backend answer or fail
SessionLive ==
    /\ SessionSpec
    /\ WF_vars(\E k \in 1..MaxFiles :
                  \/ AiResolved(k)
                  \/ \E failure \in AiFailures : AiRejected(k, failure))
    /\ WF_vars(\E k \in 1..MaxFiles : SaveSucceeded(k) \/ SaveFailed(k))

\* the session of the describe tab: uploads, generated and typed
\* descriptions, and saves, without the image edits of the other tabs
DescribeNext ==
    \/ \E n \in 1..MaxUpload : handleFilesUpload(n)
    \/ \E id \in 1..MaxFiles : handleSelectImage(id)
    \/ handleGenerateDescription
    \/ \E k \in 1..MaxFiles : DescriptionResolved(k)
    \/ \E k \in 1..MaxFiles : DescriptionRejected(k)
    \/ onDescriptionChange
    \/ \E itemType \in {"Image", "Description"} : handleInitiateSave(itemType)
    \/ closeSaveModal
    \/ handleSaveToDb
    \/ \E k \in 1..MaxFiles : SaveSucceeded(k)
    \/ \E k \in 1..MaxFiles : SaveFailed(k)
    \/ handleUploadNew
    \/ dismissError

DescribeSpec == Init /\ [][DescribeNext]_vars

ServerStart == ClientInit /\ ServerInit /\ FacadeIdle /\ ListingQuiet /\ KeywordIdle
               /\ DbCallIdle

ServerNext ==
    \/ \E sku \in RequestSkus, type \in Types, dataType \in DataTypes,
          payload \in Payloads : Receive(sku, type, dataType, payload)
    \/ \E sku \in RequestSkus, type \in Types, dataType \in DataTypes,
          payload \in Payloads : ConnectFails(sku, type, dataType, payload)
    \/ \E r \in Slots : Find(r)
    \/ \E r \in Slots : FindFails(r)
    \/ \E r \in Slots : Upload(r)
    \/ \E r \in Slots : UploadFails(r)
    \/ \E r \in Slots : Update(r)
    \/ \E r \in Slots : UpdateFails(r)
    \/ \E r \in Slots : Respond(r)

ServerSpec == ServerStart /\ [][ServerNext]_vars

FacadeNext ==
    \/ \E context \in Contexts, response \in Responses : generateContent(context, response)
    \/ HandleResponse
    \/ CallSettled

FacadeSpec == Init /\ [][FacadeNext]_vars

ListingNext ==
    \/ ListReceive
    \/ ListConnectFails
    \/ \E r \in Slots : ListQuery(r)
    \/ \E r \in Slots : ListQueryFails(r)
    \/ \E r \in Slots : ListRespond(r)

ListingStart == ClientInit /\ ListingInit /\ FacadeIdle /\ KeywordIdle /\ DbCallIdle

ListingSpec == ListingStart /\ [][ListingNext]_vars

KeywordStart == ClientInit /\ ServerQuiet /\ FacadeIdle /\ ListingQuiet /\ KeywordInit
                /\ DbCallIdle

KeywordSpec == KeywordStart /\ [][CallKeyword]_vars

DbCallNext ==
    \/ \E type \in SaveTypes, dataType \in {"Image", "Description"},
          data \in {"File", "string"} : updateProductInDB(type, dataType, data)
    \/ \E response \in FetchResponses : FetchResolved(response)
    \/ FetchRejected
    \/ DbCallTaken

DbCallSpec == Init /\ [][DbCallNext]_vars

(***************************************************************************)
(* Properties of the editing session                                       *)
(***************************************************************************)
HasOp == Len(opLog) > 0
LastOp == opLog[Len(opLog)]
\* the image the last operation ran on, before and after it (0 if it is gone)
LastPos == findIndex(LastOp.images, LastOp.id)
LastBefore == LastOp.images[LastPos]
LastAfter == images[LastPos]
OthersUnchanged ==
    /\ Len(images) = Len(LastOp.images)
    /\ \A k \in 1..Len(images) : k # LastPos => images[k] = LastOp.images[k]
Range(s) == {s[k] : k \in 1..Len(s)}
InSomeHistory(f, imgs) == \E k \in 1..Len(imgs) : f \in Range(imgs[k].history)

\* C1: after every operation, every image of the session has
\* 0 <= historyIndex < history.length.
C1_IndexInBounds ==
    \A k \in 1..Len(images) :
        /\ 0 <= images[k].historyIndex
        /\ images[k].historyIndex < Len(images[k].history)

\* an edit was applied right after an undo, and a redo ran at the end of a history
C1_Witness ==
    /\ Len(opLog) = 2
    /\ opLog[1].op = "undo"
    /\ opLog[2].op = "applyEdit"
    /\ LastPos # 0
    /\ LastAfter.historyIndex = Len(LastAfter.history) - 1
    /\ Len(LastAfter.history) >= 2

\* C2: applyEdit(newArtifact) on history h, index i yields h[0..i] followed
\* by newArtifact with index i + 1, leaves every other image alone, and an
\* artifact that is in no history never enters a history again.
C2_AppliedEdit ==
    (HasOp /\ LastOp.op = "applyEdit" /\ LastPos # 0) =>
        /\ LastAfter.history =
               Append(SubSeq(LastBefore.history, 1, LastBefore.historyIndex + 1), LastOp.arg)
        /\ LastAfter.historyIndex = LastBefore.historyIndex + 1
        /\ \A j \in 1..(LastBefore.historyIndex + 1) :
               LastAfter.history[j] = LastBefore.history[j]
        /\ \A j \in (LastBefore.historyIndex + 2)..Len(LastBefore.history) :
               LastBefore.history[j] \notin Range(LastAfter.history)
        /\ OthersUnchanged

C2_NoResurrection ==
    \A f \in 1..nextFile :
        (~InSomeHistory(f, images)) => ~InSomeHistory(f, images')

C2_ApplyEditTruncatesAndAppends ==
    []C2_AppliedEdit /\ [][C2_NoResurrection]_vars

\* an edit was applied while redo entries existed, so a tail was discarded
C2_Witness ==
    /\ HasOp
    /\ LastOp.op = "applyEdit"
    /\ LastPos # 0
    /\ LastBefore.historyIndex < Len(LastBefore.history) - 1
    /\ LastBefore.history[LastBefore.historyIndex + 2] \notin Range(LastAfter.history)
    /\ Len(LastAfter.history) = LastBefore.historyIndex + 2

\* C3: undo followed immediately by redo leaves history, historyIndex and
\* the current artifact as they were before the undo; after an undo the
\* redo is legal.
C3_UndoRedoRestores ==
    /\ (HasOp /\ LastOp.op = "undo") => canRedo
    /\ (Len(opLog) = 2 /\ opLog[1].op = "undo" /\ opLog[2].op = "redo") =>
          /\ opLog[1].id = opLog[2].id
          /\ images = opLog[1].images
          /\ LET k == findIndex(images, opLog[1].id)
                 b == opLog[1].images[k]
             IN  /\ k # 0
                 /\ images[k].history[images[k].historyIndex + 1]
                       = b.history[b.historyIndex + 1]

\* undo from the third entry of a history, then redo
C3_Witness ==
    /\ Len(opLog) = 2
    /\ opLog[1].op = "undo"
    /\ opLog[2].op = "redo"
    /\ LastPos # 0
    /\ LastAfter.historyIndex >= 2

\* n redos from img, each one legal
RECURSIVE RedoTimes(_, _)
RedoTimes(img, n) ==
    IF n = 0 THEN img
    ELSE LET r == RedoTimes(img, n - 1)
         IN  IF r.historyIndex < Len(r.history) - 1 THEN redoUpdater(r) ELSE r

\* C4: reset sets historyIndex to 0 and leaves the history unchanged, so
\* the current artifact is history[0] and every later artifact is reached
\* again by that many redos.
C4_ResetKeepsHistory ==
    (HasOp /\ LastOp.op = "reset") =>
        /\ LastPos # 0
        /\ LastAfter.historyIndex = 0
        /\ LastAfter.history = LastBefore.history
        /\ currentImage = originalImage
        /\ currentImage = LastBefore.history[1]
        /\ OthersUnchanged
        /\ \A n \in 1..(Len(LastBefore.history) - 1) :
              LET r == RedoTimes(LastAfter, n)
              IN  r.history[r.historyIndex + 1] = LastBefore.history[n + 1]

\* reset from the third entry of a history
C4_Witness ==
    /\ HasOp
    /\ LastOp.op = "reset"
    /\ LastPos # 0
    /\ LastBefore.historyIndex >= 2
    /\ Len(LastAfter.history) >= 3


(***************************************************************************)
(* Properties of the update handler                                        *)
(***************************************************************************)
Done(r) == requests[r].pc = "done"
\* the bytes stored under the object a URL names
UrlOf(key) == CDN_BASE_URL \o "/" \o key
StageImageColumns == ImageColumns \ {"pre_image_url"}
\* type ImageType, in lower case as the handler compares it
ImageStages == {"pre", "sketch", "wax", "cast", "final"}
TitleSaved(sku) == <<sku, "Description", "Meta_title">> \in saved

\* C5: an update for a SKU without a row answers 404 NotFound whatever its
\* target, dataType and payload are, uploads nothing and issues no UPDATE;
\* the step that answers leaves the table and the bucket as they were.
C5_Answer ==
    \A r \in Slots :
        (Done(r) /\ requests[r].rowCount = 0) =>
            /\ requests[r].status = 404
            /\ requests[r].outcome = "NotFound"
            /\ requests[r].uploads = 0
            /\ ~requests[r].wrote
            /\ requests[r].updateFields = <<>>

C5_Step ==
    \A r \in Slots :
        (requests[r].pc = "find" /\ requests[r].sku \notin DOMAIN rows
           /\ requests'[r] # requests[r]) =>
            /\ requests'[r].pc = "done"
            /\ rows' = rows
            /\ bucket' = bucket

C5_UnknownSkuNotFound == []C5_Answer /\ [][C5_Step]_vars

\* an Image request with an unmapped target for the missing SKU was answered
C5_Witness ==
    \E r \in Slots :
        /\ Done(r)
        /\ requests[r].rowCount = 0
        /\ requests[r].dataType = "Image"
        /\ requests[r].type = "Meta_title"
        /\ requests[r].image = NULL
        /\ requests[r].status = 404

\* C6 as stated: an Image update to a stage other than pre, for an existing
\* SKU whose meta_title is null or empty, answers 400 PreconditionFailed and
\* performs no upload and no row update.
C6_Original ==
    \A r \in Slots :
        (/\ Done(r)
         /\ requests[r].dataType = "Image"
         /\ toLowerCase[requests[r].type] # "pre"
         /\ requests[r].rowCount = 1
         /\ ~truthy(requests[r].metaTitle)) =>
            /\ requests[r].status = 400
            /\ requests[r].outcome = "PreconditionFailed"
            /\ requests[r].uploads = 0
            /\ ~requests[r].wrote

\* C6: an Image update to a stage other than pre, for an existing SKU whose
\* meta_title is null or empty, answers 400 and performs no upload and no
\* row update: PreconditionFailed when it carries an image file,
\* InvalidInput when it does not.
C6_TitleRequired ==
    \A r \in Slots :
        (/\ Done(r)
         /\ requests[r].dataType = "Image"
         /\ toLowerCase[requests[r].type] # "pre"
         /\ requests[r].rowCount = 1
         /\ ~truthy(requests[r].metaTitle)) =>
            /\ requests[r].status = 400
            /\ requests[r].outcome =
                  IF requests[r].image # NULL THEN "PreconditionFailed" ELSE "InvalidInput"
            /\ requests[r].uploads = 0
            /\ ~requests[r].wrote

\* a Wax image with a file was refused for a row whose meta_title is empty
C6_Witness ==
    \E r \in Slots :
        /\ Done(r)
        /\ requests[r].dataType = "Image"
        /\ requests[r].type = "Wax"
        /\ requests[r].image = "f1"
        /\ requests[r].rowCount = 1
        /\ requests[r].metaTitle = ""
        /\ requests[r].outcome = "PreconditionFailed"

C8_State ==
    /\ \A s \in DOMAIN rows :
          /\ TitleSaved(s) <=> truthy(rows[s]["meta_title"])
          /\ TitleSaved(s) => rows[s]["meta_title"] = Title
    /\ \A r \in Slots :
          (/\ Done(r)
           /\ requests[r].dataType = "Image"
           /\ requests[r].type = "Wax"
           /\ requests[r].image # NULL
           /\ requests[r].rowCount = 1) =>
              /\ ~truthy(requests[r].metaTitle) =>
                    /\ requests[r].outcome = "PreconditionFailed"
                    /\ requests[r].uploads = 0
              /\ truthy(requests[r].metaTitle) =>
                    /\ TitleSaved(requests[r].sku)
                    /\ requests[r].outcome # "PreconditionFailed"
                    /\ requests[r].status # 400

C8_TitleStep ==
    \A r \in Slots :
        (/\ requests[r].pc = "update"
         /\ requests[r].dataType = "Description"
         /\ requests[r].type = "Meta_title"
         /\ requests'[r].pc = "done"
         /\ requests'[r].status = 200) =>
            /\ rows'[requests[r].sku]["meta_title"] = requests[r].description
            /\ \A s \in DOMAIN rows : \A c \in Columns :
                  rows'[s][c] # rows[s][c] =>
                      s = requests[r].sku /\ c \in {"meta_title", "modified_at"}

C9_Step ==
    \A s \in DOMAIN rows :
        rows[s]["pre_image_url"] # NULL =>
            /\ rows'[s]["pre_image_url"] = rows[s]["pre_image_url"]
            /\ \A key \in DOMAIN bucket :
                  UrlOf(key) = rows[s]["pre_image_url"] =>
                      key \in DOMAIN bucket' /\ bucket'[key] = bucket[key]

C9_PreImageWriteOnce == [][C9_Step]_vars

\* C10 as stated: a successful Image update that carries the original image
\* for a row whose pre_image_url is null sets pre_image_url in the same
\* UPDATE, next to the column of its stage.
C10_OriginalImageSaved ==
    \A r \in Slots :
        (/\ Done(r)
         /\ requests[r].dataType = "Image"
         /\ requests[r].status = 200
         /\ requests[r].originalImage # NULL
         /\ requests[r].preImageUrl = NULL) =>
            /\ \E k \in 1..Len(requests[r].updateFields) :
                  requests[r].updateFields[k][1] = toLowerCase[requests[r].type] \o "_image_url"
            /\ \E k \in 1..Len(requests[r].updateFields) :
                  requests[r].updateFields[k][1] = "pre_image_url"
            /\ rows[requests[r].sku]["pre_image_url"] # NULL

\* the columns of row s whose values differ between two tables
Changed(t1, t2, s) == {c \in Columns : t1[s][c] # t2[s][c]}
TextOnly(text) == [image |-> NULL, originalImage |-> NULL, description |-> text]

\* C11: a successful Description update whose target is a key of fieldMap
\* writes its non-empty text to the column fieldMap gives for the target and
\* changes nothing else but modified_at of that row; for every key of
\* fieldMap the handler plans exactly that one column.
C11_Table ==
    \A type \in DOMAIN fieldMap :
        LET req == Arrived("ABC-123", type, "Description", TextOnly(Title))
            d == Decide(req, findQuery(rows, "ABC-123"))
            t == updateQuery(rows, "ABC-123", d.updateFields, clock + 1)
        IN  /\ d.pc = "update"
            /\ d.updateFields = <<<<fieldMap[type], Title>>>>
            /\ t["ABC-123"][fieldMap[type]] = Title
            /\ Changed(rows, t, "ABC-123") \subseteq {fieldMap[type], "modified_at"}
            /\ \A s \in DOMAIN rows \ {"ABC-123"} : t[s] = rows[s]

C11_Step ==
    \A r \in Slots :
        (/\ requests[r].pc = "update"
         /\ requests[r].dataType = "Description"
         /\ requests[r].type \in DOMAIN fieldMap
         /\ requests'[r].pc = "done"
         /\ requests'[r].status = 200) =>
            /\ truthy(requests[r].description)
            /\ rows'[requests[r].sku][fieldMap[requests[r].type]] = requests[r].description
            /\ \A s \in DOMAIN rows :
                  Changed(rows, rows', s) \subseteq
                      IF s = requests[r].sku
                      THEN {fieldMap[requests[r].type], "modified_at"} ELSE {}

C11_MappedTextWritesOneColumn == []C11_Table /\ [][C11_Step]_vars

\* a text save to a mapped target was answered 200 and its column holds the text
C11_Witness ==
    \E r \in Slots :
        /\ Done(r)
        /\ requests[r].dataType = "Description"
        /\ requests[r].type \in DOMAIN fieldMap
        /\ requests[r].status = 200
        /\ rows[requests[r].sku][fieldMap[requests[r].type]] = requests[r].description
        /\ rows[requests[r].sku]["modified_at"] > 0

\* C12: a Description update for an existing SKU with non-empty text and a
\* target that is not a key of fieldMap answers 400 InvalidTarget and
\* executes no UPDATE: the step that answers leaves the table, modified_at
\* included, as it was.
C12_Answer ==
    \A r \in Slots :
        (/\ Done(r)
         /\ requests[r].rowCount = 1
         /\ requests[r].dataType = "Description"
         /\ truthy(requests[r].description)
         /\ requests[r].type \notin DOMAIN fieldMap) =>
            /\ requests[r].status = 400
            /\ requests[r].outcome = "InvalidTarget"
            /\ requests[r].updates = 0
            /\ ~requests[r].wrote

C12_Step ==
    \A r \in Slots :
        (/\ requests[r].pc = "find"
         /\ requests[r].sku \in DOMAIN rows
         /\ requests[r].dataType = "Description"
         /\ truthy(requests[r].description)
         /\ requests[r].type \notin DOMAIN fieldMap
         /\ requests'[r] # requests[r]) =>
            /\ requests'[r].pc = "done"
            /\ rows' = rows
            /\ clock' = clock

C13_InvalidImageTarget ==
    \A r \in Slots :
        (/\ Done(r)
         /\ requests[r].rowCount = 1
         /\ requests[r].dataType = "Image"
         /\ toLowerCase[requests[r].type] \notin ImageStages) =>
            /\ requests[r].status = 400
            /\ requests[r].outcome = "InvalidTarget"
            /\ requests[r].uploads = 0
            /\ ~requests[r].wrote

\* C14: for an existing SKU, an Image update without a file and a
\* Description update without text or with empty text answer 400
\* InvalidInput, upload nothing and update no row.
C14_Answer ==
    \A r \in Slots :
        (/\ Done(r)
         /\ requests[r].rowCount = 1
         /\ \/ requests[r].dataType = "Image" /\ requests[r].image = NULL
            \/ requests[r].dataType = "Description"
                  /\ requests[r].description \in {NULL, ""}) =>
            /\ requests[r].status = 400
            /\ requests[r].outcome = "InvalidInput"
            /\ requests[r].uploads = 0
            /\ requests[r].updates = 0
            /\ ~requests[r].wrote

C14_Step ==
    \A r \in Slots :
        (/\ requests[r].pc = "find"
         /\ requests[r].sku \in DOMAIN rows
         /\ \/ requests[r].dataType = "Image" /\ requests[r].image = NULL
            \/ requests[r].dataType = "Description"
                  /\ requests[r].description \in {NULL, ""}
         /\ requests'[r] # requests[r]) =>
            /\ requests'[r].pc = "done"
            /\ rows' = rows
            /\ bucket' = bucket

C14_MissingPayload == []C14_Answer /\ [][C14_Step]_vars

\* a text save to Meta_title with the empty text was refused
C14_Witness ==
    \E r \in Slots :
        /\ Done(r)
        /\ requests[r].rowCount = 1
        /\ requests[r].dataType = "Description"
        /\ requests[r].type = "Meta_title"
        /\ requests[r].description = ""
        /\ requests[r].status = 400
        /\ rows[requests[r].sku]["meta_title"] # Title

\* the columns named by the SET list a request has built
Targets(req) == {req.updateFields[k][1] : k \in 1..Len(req.updateFields)}

\* C15: every update call issues at most one UPDATE statement; a step that
\* changes the table is the UPDATE of one request, changes only the row of
\* that request's SKU and there only the request's one target column, the
\* original-image column and modified_at; every other row is unchanged.
C15_State ==
    \A r \in Slots :
        /\ requests[r].updates <= 1
        /\ Len(requests[r].updateFields) <= 1
        /\ requests[r].wrote => requests[r].updates = 1

C15_Step ==
    rows' # rows =>
        \E r \in Slots :
            /\ requests[r].pc = "update"
            /\ requests'[r].pc = "done"
            /\ requests[r].updates = 0
            /\ requests'[r].updates = 1
            /\ \A q \in Slots \ {r} : requests'[q] = requests[q]
            /\ \A s \in DOMAIN rows \ {requests[r].sku} : rows'[s] = rows[s]
            /\ Changed(rows, rows', requests[r].sku) \subseteq
                  Targets(requests[r]) \cup {"pre_image_url", "modified_at"}

C16_SuccessXorNoWrite ==
    \A r \in Slots :
        Done(r) =>
            \/ /\ requests[r].status = 200
               /\ requests[r].wrote
               /\ Len(requests[r].updateFields) = 1
               /\ rows[requests[r].sku][requests[r].updateFields[1][1]]
                     = requests[r].updateFields[1][2]
            \/ /\ requests[r].status \in {400, 404, 500}
               /\ ~requests[r].wrote

\* C17: a request that took a connection from the pool releases it exactly
\* once, in the step that finishes it, on every path; the connections
\* checked out are those of the requests still being handled, and none is
\* checked out once every request has finished.
Holding == {r \in Slots : requests[r].client}

C17_State ==
    /\ checkedOut = Cardinality(Holding)
    /\ \A r \in Slots : requests[r].pc \in {"free", "done"} => ~requests[r].client
    /\ \A r \in Slots : requests[r].pc \in {"find", "upload", "update"} => requests[r].client
    /\ (\A r \in Slots : requests[r].pc \in {"free", "done"}) => checkedOut = 0

C17_Step ==
    LET released == {r \in Slots : requests[r].client /\ ~requests'[r].client}
        acquired == {r \in Slots : ~requests[r].client /\ requests'[r].client}
    IN  /\ checkedOut' = checkedOut + Cardinality(acquired) - Cardinality(released)
        /\ \A r \in released : requests'[r].pc = "done"
        /\ \A r \in acquired : requests[r].pc = "free"

C17_ConnectionReleased == []C17_State /\ [][C17_Step]_vars

\* both requests of a run have finished, the last one after its upload
\* failed, and no connection is checked out
C17_Witness ==
    /\ issued = MaxRequests
    /\ checkedOut = 0
    /\ \E r \in Slots :
          /\ Done(r)
          /\ requests[r].outcome = "StorageFailure"
          /\ \A q \in Slots \ {r} : requests[q].pc = "free"

(***************************************************************************)
(* Properties of the AI response handling                                  *)
(***************************************************************************)
Handled == apiCall = "handled"
HasImagePart ==
    Len(apiResponse.candidates) > 0 /\ apiResponse.candidates[1].inlineData # NULL
FinishReason ==
    IF Len(apiResponse.candidates) > 0 THEN apiResponse.candidates[1].finishReason ELSE NULL

\* C18: the response of an image-producing call is classified in this
\* order: a block reason gives Blocked even when an image part is present;
\* otherwise an image part is returned even when the finish reason is not
\* STOP; otherwise a finish reason other than STOP gives GenerationStopped;
\* otherwise EmptyResult, whose message carries the text the model returned.
C18_ResponseOrder ==
    Handled =>
        /\ apiResult.context = apiContext
        /\ IF apiResponse.blockReason # NULL
           THEN apiResult.kind = "Blocked" /\ apiResult.value = apiResponse.blockReason
           ELSE IF HasImagePart
           THEN /\ apiResult.kind = "returned"
                /\ apiResult.value = "data:image/png;base64,"
                                         \o apiResponse.candidates[1].inlineData
           ELSE IF FinishReason \notin {NULL, "STOP"}
           THEN apiResult.kind = "GenerationStopped" /\ apiResult.value = FinishReason
           ELSE /\ apiResult.kind = "EmptyResult"
                /\ apiResponse.text = " sorry " => apiResult.value = "sorry"
                /\ apiResponse.text \in {NULL, "", "  "} => apiResult.value = NULL

\* a response with an image part and the finish reason MAX_TOKENS was
\* handled and the image returned
C18_Witness ==
    /\ Handled
    /\ apiResponse.blockReason = NULL
    /\ HasImagePart
    /\ FinishReason = "MAX_TOKENS"
    /\ apiResult.kind = "returned"

(***************************************************************************)
(* Properties of the requests of the session                               *)
(***************************************************************************)
\* C19 as stated: in every reachable client state at most one network
\* request is in flight: never two AI requests, never two save requests,
\* never an AI request together with a save request.
C19_OneRequestInFlight == Len(aiRequests) + Len(saveRequests) <= 1

\* the image an awaited AI request was started for, 0 if it is gone
PendingPos(imgs, k) == findIndex(imgs, aiRequests[k].id)

\* C20 as stated: while an AI edit request for an image is pending, no step
\* changes the history or the historyIndex of that image, so its current
\* artifact stays the one that was sent to the model and the result is
\* appended directly after it.
C20_State ==
    \A k \in 1..Len(aiRequests) :
        (aiRequests[k].kind # "describe" /\ PendingPos(images, k) # 0) =>
            LET img == images[PendingPos(images, k)]
            IN  img.history[img.historyIndex + 1] = aiRequests[k].sent

C20_Step ==
    \A k \in 1..Len(aiRequests) :
        (/\ aiRequests' = aiRequests
         /\ aiRequests[k].kind # "describe"
         /\ PendingPos(images, k) # 0
         /\ PendingPos(images', k) # 0) =>
            LET before == images[PendingPos(images, k)]
                after == images'[PendingPos(images', k)]
            IN  /\ after.history = before.history
                /\ after.historyIndex = before.historyIndex

C20_PendingEditFrozen == []C20_State /\ [][C20_Step]_vars

(***************************************************************************)
(* Properties of the listing, the save targets and the keyword             *)
(***************************************************************************)
\* filled_count: the number of tracked fields of a row that are not null
filledCount(row) == Cardinality({c \in TrackedFields : row[c] # NULL})

\* C21 as stated: every product of a listing answered with 200 is
\* classified by the number n of its 12 tracked fields that are not null:
\* 'normal' for n = 0, 'green' for n = 12, 'orange' for every n between.
C21_ClassifiedByFilledCount ==
    \A r \in Slots :
        (listings[r].pc = "done" /\ listings[r].status = 200) =>
            \A k \in 1..Len(listings[r].body) :
                LET p == listings[r].body[k]
                    n == filledCount(rows[p.sku])
                IN  p.statusColor =
                        IF n = 0 THEN "normal"
                        ELSE IF n = Cardinality(TrackedFields) THEN "green"
                        ELSE "orange"

\* the save targets of texts in the client: the DescriptionType union, the
\* presets and save buttons of the describe panel, the options of SaveModal
DescriptionType ==
    {"Sketch_description", "Wax_description", "Cast_description", "Final_description",
     "Sketch_alt", "Wax_alt", "Cast_alt", "Final_alt",
     "Meta_title", "Meta_description", "Product_name"}
DescribePanelTargets ==
    {"Wax_description", "Cast_description", "Final_description",
     "Wax_alt", "Cast_alt", "Final_alt", "Product_name", "Meta_title", "Meta_description"}
SaveModalTextOptions ==
    {"Wax_description", "Cast_description", "Final_description",
     "Wax_alt", "Cast_alt", "Final_alt", "Meta_title", "Meta_description"}
UiTextTargets == DescriptionType \cup DescribePanelTargets \cup SaveModalTextOptions

\* C22: every text save target of the client is a key of fieldMap, so a
\* Description update of an existing product with such a target and a
\* non-empty text is planned as an UPDATE and never answered InvalidTarget.
C22_Table ==
    \A type \in UiTextTargets :
        LET req == Arrived("ABC-123", type, "Description", TextOnly(Title))
            d == Decide(req, findQuery(rows, "ABC-123"))
        IN  /\ type \in DOMAIN fieldMap
            /\ d.outcome # "InvalidTarget"
            /\ d.pc = "update"

C22_State ==
    \A r \in Slots :
        (/\ Done(r)
         /\ requests[r].dataType = "Description"
         /\ requests[r].type \in UiTextTargets) => requests[r].outcome # "InvalidTarget"

C22_FieldMapExhaustive == C22_Table /\ C22_State

\* a text save to a target the client offers went through the target check
\* and was answered 200
C22_Witness ==
    \E r \in Slots :
        /\ Done(r)
        /\ requests[r].dataType = "Description"
        /\ requests[r].type \in UiTextTargets
        /\ requests[r].updateFields = <<<<fieldMap[requests[r].type], Title>>>>
        /\ requests[r].status = 200

\* C23 as stated: for every SKU string the index computed by
\* getConsistentKeyword lies in 0..SEO_KEYWORDS.length-1, every call returns
\* an element of SEO_KEYWORDS, and calls with the same SKU return the same.
C23_KeywordTotal ==
    /\ keywordIndex(kwSku).kind = "finite"
    /\ keywordIndex(kwSku).value \in 0..(Len(SEO_KEYWORDS) - 1)
    /\ \A k \in 1..Len(kwCalls) :
          /\ kwCalls[k] \in Range(SEO_KEYWORDS)
          /\ kwCalls[k] = kwCalls[1]

\* C24 as stated: an update request for an existing SKU whose dataType is
\* neither 'Image' nor 'Description' is answered 400 and executes no UPDATE:
\* no step of the request changes the row, modified_at included.
C24_Answer ==
    \A r \in Slots :
        (/\ Done(r)
         /\ requests[r].rowCount = 1
         /\ requests[r].dataType \notin {"Image", "Description"}) =>
            /\ requests[r].status = 400
            /\ requests[r].updates = 0

C24_Step ==
    \A r \in Slots :
        (/\ requests[r].dataType \notin {"Image", "Description"}
         /\ requests[r].pc \notin {"free", "done"}
         /\ requests'[r] # requests[r]) => rows' = rows

C24_InvalidDataTypeRejected == []C24_Answer /\ [][C24_Step]_vars

\* C25 as stated: every connection the listing handler acquired is released
\* before its response is sent, when the query succeeds and when it fails:
\* the connections checked out are those of the listings still querying.
C25_ListingReleases ==
    /\ \A r \in Slots : listings[r].pc = "done" => ~listings[r].client
    /\ checkedOut = Cardinality({r \in Slots : listings[r].pc = "query"})

(***************************************************************************)
(* Properties of descriptions, of history and of failed requests           *)
(***************************************************************************)
\* C26 as stated: in every reachable client state an image is marked
\* isDescriptionSaved only if its description is not null and equals the
\* text of the last Description save that succeeded for that image.
C26_SavedFlagMatchesSave ==
    \A k \in 1..Len(images) :
        images[k].isDescriptionSaved =>
            /\ images[k].description # NULL
            /\ images[k].description = savedText[images[k].id]

\* C27: every image of the session has a non-empty history whose first
\* entry is its originalFile, and no step removes or replaces the first
\* entry of the history of an image that stays in the session.
C27_State ==
    \A k \in 1..Len(images) :
        /\ Len(images[k].history) > 0
        /\ images[k].history[1] = images[k].originalFile

C27_Step ==
    \A k \in 1..Len(images) :
        findIndex(images', images[k].id) # 0 =>
            LET after == images'[findIndex(images', images[k].id)]
            IN  /\ Len(after.history) > 0
                /\ after.history[1] = images[k].history[1]
                /\ after.originalFile = images[k].originalFile

C27_FirstEntryIsOriginal == []C27_State /\ [][C27_Step]_vars

\* an image with two edits applied has been taken back by undo or reset and
\* still starts with its original file
C27_Witness ==
    /\ HasOp
    /\ LastOp.op \in {"undo", "reset"}
    /\ LastPos # 0
    /\ Len(LastAfter.history) = 3
    /\ LastAfter.historyIndex < 2
    /\ LastAfter.history[1] = LastAfter.originalFile

\* a step in which the awaited AI call of an edit, filter or adjustment threw
FailedEditStep ==
    /\ Len(aiRequests') < Len(aiRequests)
    /\ opLog'[Len(opLog')].op = "failedEdit"

\* C28: the step in which an AI edit, filter or adjustment request fails
\* leaves the history and the historyIndex of every image as they were,
\* creates no file and sets the error message.
C28_Step ==
    FailedEditStep =>
        /\ Len(images') = Len(images)
        /\ \A k \in 1..Len(images) :
              /\ images'[k].history = images[k].history
              /\ images'[k].historyIndex = images[k].historyIndex
        /\ nextFile' = nextFile
        /\ error' \in AiFailures

C28_FailedEditKeepsHistory == [][C28_Step]_vars

\* a request for an image with an edited history has failed: the error is
\* shown and the images are those from before the failure
C28_Witness ==
    /\ HasOp
    /\ LastOp.op = "failedEdit"
    /\ error \in AiFailures
    /\ ~isLoading
    /\ images = LastOp.images
    /\ \E k \in 1..Len(images) : images[k].id = LastOp.id /\ Len(images[k].history) >= 2

(***************************************************************************)
(* Properties of the save call of the client                               *)
(***************************************************************************)
\* C29: the promise of updateProductInDB never rejects. Data that does not
\* fit the dataType, a response that is not 2xx and a failure of the network
\* each resolve to { success: false, message } with a message, and the body
\* of the server is returned only for a 2xx response.
C29_NeverRejects ==
    /\ dbResult.settled # "rejected"
    /\ dbCall.pc = "settled" =>
          /\ dbResult.settled = "resolved"
          /\ (\/ ~validData(dbCall.dataType, dbCall.data)
              \/ dbCall.fetched = "rejected"
              \/ (dbCall.fetched = "resolved" /\ ~ok(dbCall.response))) =>
                 /\ dbResult.value.success = FALSE
                 /\ truthy(dbResult.value.message)
                 /\ dbResult.by # "responseData"
          /\ ~validData(dbCall.dataType, dbCall.data) => dbCall.fetched = "no"
          /\ dbResult.by = "responseData" =>
                 /\ dbCall.fetched = "resolved"
                 /\ ok(dbCall.response)
                 /\ dbResult.value = dbCall.response.body

\* the server answered 404 with a message: the call resolved to
\* { success: false } carrying that message
C29_Witness ==
    /\ dbCall.pc = "settled"
    /\ dbCall.fetched = "resolved"
    /\ dbCall.response.status = 404
    /\ dbResult.settled = "resolved"
    /\ dbResult.by = "catch"
    /\ dbResult.value = [success |-> FALSE, message |-> dbCall.response.body.message]

(***************************************************************************)
(* Properties of the busy flags                                            *)
(***************************************************************************)
\* a step in which an awaited AI call, or an awaited save, settles
AiSettledStep == Len(aiRequests') < Len(aiRequests)
SaveSettledStep == Len(saveRequests') < Len(saveRequests)
SaveFailedStep == SaveSettledStep /\ error' = "Failed to save to database."

\* C30: isLoading is set only while an AI request is awaited and isSaving
\* only while a save is awaited; the step in which the request settles,
\* with a result or with an error, clears the flag, so that every flag that
\* is set is eventually cleared once the calls settle; and the step in which
\* a save settles closes the modal exactly when the save succeeded.
C30_State ==
    /\ isLoading => Len(aiRequests) > 0
    /\ isSaving => Len(saveRequests) > 0

C30_Step ==
    /\ AiSettledStep => ~isLoading'
    /\ SaveSettledStep => ~isSaving'
    /\ SaveFailedStep => isSaveModalOpen' = isSaveModalOpen
    /\ (SaveSettledStep /\ ~SaveFailedStep) => ~isSaveModalOpen'

C30_BusyFlagsCleared ==
    /\ []C30_State
    /\ [][C30_Step]_vars
    /\ isLoading ~> ~isLoading
    /\ isSaving ~> ~isSaving

\* a save failed with the modal open: the flag is cleared, the modal is
\* still open and the error is shown
C30_Witness ==
    /\ error = "Failed to save to database."
    /\ ~isSaving
    /\ saveRequests = <<>>
    /\ isSaveModalOpen
    /\ itemToSave = "Image"
    /\ ~isLoading

====
